---- MODULE Spec2Model ----
(***************************************************************************)
(* vomitorium: the file-selection and traversal engine of                  *)
(* src/vomitorium.js (isExcluded, traverseDirectory, processFile,          *)
(* logSkippedFile, main).                                                  *)
(*                                                                         *)
(* A file name is a sequence of one-character strings, a path is a         *)
(* sequence of names (the segments of an absolute path), and the string a  *)
(* path prints as is a sequence of characters, so that String.includes,    *)
(* path.relative, path.basename and path.extname are computed on           *)
(* characters as node computes them.                                       *)
(***************************************************************************)
EXTENDS Integers, Sequences, FiniteSets, TLC

(* ------------------------------ bounds --------------------------------- *)

\* number of successive runs of the tool a behaviour contains
MaxRuns == 2

(* ------------------------- names on the disk --------------------------- *)

n_usr    == <<"u","s","r">>
n_src    == <<"s","r","c">>
n_app    == <<"a","p","p">>
n_build  == <<"b","u","i","l","d">>
n_lib    == <<"l","i","b">>
n_sub    == <<"s","u","b">>
n_a_js   == <<"a",".","j","s">>
n_x_js   == <<"x",".","j","s">>
n_y_js   == <<"y",".","j","s">>
n_o_js   == <<"o",".","j","s">>
n_z_ts   == <<"z",".","t","s">>
n_n_md   == <<"n",".","m","d">>
n_rc     == <<".","r","c">>
n_out_js == <<"o","u","t",".","j","s">>
n_out_sick == <<"o","u","t",".","s","i","c","k">>
n_nope   == <<"n","o","p","e">>
n_dotdot == <<".",".">>
n_old    == <<"o","l","d">>

ext_js   == <<".","j","s">>
ext_ts   == <<".","t","s">>

\* the project directory /usr/src/app and what lies in it
Proj     == <<n_usr, n_src, n_app>>

StaticDirs ==
    { <<n_usr>>, <<n_usr, n_src>>, Proj,
      Proj \o <<n_build>>, Proj \o <<n_lib>>, Proj \o <<n_src>>,
      Proj \o <<n_src, n_sub>> }

StaticFiles ==
    { Proj \o <<n_a_js>>, Proj \o <<n_rc>>,
      Proj \o <<n_build, n_o_js>>,
      Proj \o <<n_lib, n_y_js>>,
      Proj \o <<n_src, n_n_md>>, Proj \o <<n_src, n_x_js>>,
      Proj \o <<n_src, n_sub, n_z_ts>> }

\* the order in which a listing returns the names it holds (the order
\* readdir gives is the file system's; it is the same on every call)
ListOrder ==
    << n_build, n_n_md, n_sub, n_x_js, n_src, n_a_js, n_rc, n_lib, n_y_js,
       n_z_ts, n_o_js, n_out_js, n_out_sick, n_app >>

\* the bytes of a source file: one token naming the file
Content(p) == << "<" , p[Len(p)][1], ">" >>

(* --------------------------- string helpers ---------------------------- *)

Range(s) == { s[i] : i \in 1..Len(s) }

\* String.prototype.includes: pat occurs in str as a contiguous substring
Includes(str, pat) ==
    \E i \in 0..(Len(str) - Len(pat)) :
        \A j \in 1..Len(pat) : str[i + j] = pat[j]

\* segments joined by "/"
RECURSIVE JoinSegs(_)
JoinSegs(segs) ==
    IF segs = <<>> THEN <<>>
    ELSE IF Len(segs) = 1 THEN segs[1]
    ELSE segs[1] \o <<"/">> \o JoinSegs(Tail(segs))

\* the string of an absolute path: "/usr/src/app"
FullString(p) == <<"/">> \o JoinSegs(p)

\* length of the longest common prefix of two segment sequences
RECURSIVE CommonLen(_, _)
CommonLen(a, b) ==
    IF a = <<>> \/ b = <<>> \/ a[1] # b[1] THEN 0
    ELSE 1 + CommonLen(Tail(a), Tail(b))

\* path.relative(from, to) for two absolute paths: one ".." for every segment
\* of from below the common prefix, then the rest of to; "" when equal
Relative(from, to) ==
    LET k    == CommonLen(from, to)
        ups  == [ i \in 1..(Len(from) - k) |-> n_dotdot ]
        rest == SubSeq(to, k + 1, Len(to))
    IN  JoinSegs(ups \o rest)

\* path.basename
Basename(p) == IF p = <<>> THEN <<>> ELSE p[Len(p)]

\* path.join(dirPath, name)
Join(dir, name) == dir \o <<name>>

\* path.resolve(scanDir) from the working directory: "." is the empty
\* sequence of segments, ".." climbs one level
RECURSIVE Resolve(_, _)
Resolve(base, segs) ==
    IF segs = <<>> THEN base
    ELSE IF segs[1] = n_dotdot
         THEN Resolve(SubSeq(base, 1, Len(base) - 1), Tail(segs))
         ELSE Resolve(base \o <<segs[1]>>, Tail(segs))

\* position of the last "." of a name, 0 when there is none
LastDot(name) ==
    LET dots == { i \in 1..Len(name) : name[i] = "." }
    IN  IF dots = {} THEN 0 ELSE CHOOSE i \in dots : \A j \in dots : j <= i

\* path.extname: from the last "." to the end; "" when there is no "." or
\* the only "." is the first character of the name
Extname(name) ==
    LET d == LastDot(name)
    IN  IF d <= 1 THEN <<>> ELSE SubSeq(name, d, Len(name))

\* a sequence of characters as one string
RECURSIVE Str(_)
Str(cs) == IF cs = <<>> THEN "" ELSE cs[1] \o Str(Tail(cs))

(* ------------------------------- state --------------------------------- *)

VARIABLES
    cfg,        \* the resolved configuration and the working directory
    env,        \* which I/O operations the file system refuses
    outExists,  \* the output file exists
    outFile,    \* the records the output file holds, in file order
    pc,         \* where main is: "access", "truncate", "walk", "done", "exited"
    exitCode,   \* the exit status of the process, -1 while it runs
    stack,      \* the active calls of traverseDirectory, innermost last
    ops,        \* the I/O operations this run has attempted, in order
    visited,    \* the entries the for-loops of this run have reached, in order
    run,        \* the number of the current run
    outAtStart, \* outExists and outFile when the current run started
    prevOut     \* outFile when the previous run ended

vars == << cfg, env, outExists, outFile, pc, exitCode, stack, ops, visited,
           run, outAtStart, prevOut >>

\* the reason texts of src/vomitorium.js:97 and :111; a record with file
\* content carries no reason
TagExcluded  == "Excluded"
TagSkipped   == "Skipped (non-matching extension)"
TagProcessed == "Processed"

(* --------------------------- configuration ----------------------------- *)

\* the working directory and --scan
Invocations ==
    { [cwd |-> Proj,                scanDir |-> <<>>],
      [cwd |-> Proj \o <<n_build>>, scanDir |-> <<n_dotdot>>],
      [cwd |-> Proj,                scanDir |-> <<n_src>>],
      [cwd |-> Proj,                scanDir |-> <<n_nope>>] }

ExcludeChoices ==
    { <<>>, <<n_build, n_rc>>, << <<"l","i">>, n_n_md >> }

IncludeChoices == { <<>>, <<n_src>>, <<n_lib>> }

ExtensionChoices == { <<ext_js>>, <<ext_js, ext_ts>> }

OutputChoices == { n_out_js, n_out_sick }

\* the I/O failures of one file system: directories readdir fails on, files
\* readFile fails on, and entries whose record appendFile fails to write
FaultChoices ==
    { [unlistable |-> {}, unreadable |-> {}, failAppend |-> {}],
      [unlistable |-> {Proj \o <<n_src, n_sub>>},
       unreadable |-> {Proj \o <<n_a_js>>},
       failAppend |-> {Proj \o <<n_lib, n_y_js>>}],
      [unlistable |-> {}, unreadable |-> {},
       failAppend |-> {Proj \o <<n_build>>, Proj \o <<n_src, n_n_md>>}],
      [unlistable |-> {Proj}, unreadable |-> {}, failAppend |-> {}] }

\* what an earlier use of the output path left there
StaleRecord ==
    [rel |-> n_old, tag |-> TagProcessed, content |-> <<"stale">>]

scanDir           == cfg.scanDir
includeDirs       == cfg.includeDirs
excludePatterns   == cfg.excludePatterns
includeExtensions == cfg.includeExtensions
showExcluded      == cfg.showExcluded
showSkipped       == cfg.showSkipped
outputFile        == cfg.outputFile

\* main: path.resolve(scanDir) and path.join(process.cwd(), outputFile)
targetDir      == Resolve(cfg.cwd, scanDir)
outputFilePath == Join(cfg.cwd, outputFile)

(* ---------------------------- file system ------------------------------ *)

IsDirectory(p) == p \in StaticDirs

Exists(p) ==
    \/ p \in StaticDirs \cup StaticFiles
    \/ p = outputFilePath /\ outExists

\* the bytes of the output file: every record as it was appended
RECURSIVE Serialize(_)
Serialize(recs) ==
    IF recs = <<>> THEN <<>>
    ELSE LET r == recs[1]
         IN  << "\n\n--- File: " \o Str(r.rel) \o " ---\n" >>
             \o (IF r.tag = TagProcessed
                 THEN <<"\n">> \o r.content \o <<"\n">>
                 ELSE << "(" \o r.tag \o ")\n" >>)
             \o Serialize(Tail(recs))

\* fs.readFile of a file that can be read
ReadFile(p) == IF p = outputFilePath THEN Serialize(outFile) ELSE Content(p)

\* fs.readdir(dirPath, {withFileTypes: true}) of a directory that can be listed
RECURSIVE ListFrom(_, _)
ListFrom(dir, names) ==
    IF names = <<>> THEN <<>>
    ELSE (IF Exists(Join(dir, names[1]))
          THEN << [name |-> names[1],
                   isDirectory |-> IsDirectory(Join(dir, names[1]))] >>
          ELSE <<>>)
         \o ListFrom(dir, Tail(names))

Readdir(dir) == ListFrom(dir, ListOrder)

(* ------------------------------ selector ------------------------------- *)

\* isExcluded without the basename test
isExcludedNoBasename(filePath) ==
    LET relativePath == Relative(cfg.cwd, filePath)
    IN  \E k \in 1..Len(excludePatterns) :
            Includes(relativePath, excludePatterns[k])

isExcluded(filePath) ==
    LET relativePath == Relative(cfg.cwd, filePath)
    IN  \E k \in 1..Len(excludePatterns) :
            LET pattern == excludePatterns[k]
                test1   == Includes(relativePath, pattern)
                test2   == Basename(filePath) = pattern
            IN  test1 \/ test2

\* the condition of src/vomitorium.js:103
shouldRecurse(fullPath) ==
    \/ Len(includeDirs) = 0
    \/ \E k \in 1..Len(includeDirs) :
           Includes(FullString(fullPath), includeDirs[k])

\* a name without an extension is taken to qualify as well
qualifiesByExtensionOrNone(name) ==
    \/ Extname(name) = <<>>
    \/ \E k \in 1..Len(includeExtensions) : includeExtensions[k] = Extname(name)

\* the condition of src/vomitorium.js:109, negated
qualifiesByExtension(name) ==
    \E k \in 1..Len(includeExtensions) : includeExtensions[k] = Extname(name)

(* ------------------------------- main ---------------------------------- *)

Op(kind, p) == [op |-> kind, path |-> p]

NewFrame(dirPath) ==
    [dirPath |-> dirPath, files |-> <<>>, i |-> 0, listed |-> FALSE]

Init ==
    /\ \E inv \in Invocations, ex \in ExcludeChoices, inc \in IncludeChoices,
          exts \in ExtensionChoices, se \in BOOLEAN, ss \in BOOLEAN,
          o \in OutputChoices :
          cfg = [cwd |-> inv.cwd, scanDir |-> inv.scanDir,
                 includeDirs |-> inc, excludePatterns |-> ex,
                 includeExtensions |-> exts, showExcluded |-> se,
                 showSkipped |-> ss, outputFile |-> o]
    /\ env \in FaultChoices
    /\ outExists \in BOOLEAN
    /\ outFile = IF outExists THEN <<StaleRecord>> ELSE <<>>
    /\ pc = "access"
    /\ exitCode = -1
    /\ stack = <<>>
    /\ ops = <<>>
    /\ visited = <<>>
    /\ run = 1
    /\ outAtStart = [exists |-> outExists, file |-> outFile]
    /\ prevOut = <<>>

\* fs.access(targetDir) resolves
AccessOk ==
    /\ pc = "access"
    /\ Exists(targetDir)
    /\ pc' = "truncate"
    /\ ops' = Append(ops, Op("access", targetDir))
    /\ UNCHANGED << cfg, env, outExists, outFile, exitCode, stack, visited,
                    run, outAtStart, prevOut >>

\* fs.access(targetDir) rejects, and the output file is emptied all the same
AccessFailsTruncating ==
    /\ pc = "access"
    /\ ~Exists(targetDir)
    /\ pc' = "exited"
    /\ exitCode' = 1
    /\ outExists' = TRUE
    /\ outFile' = <<>>
    /\ ops' = Append(ops, Op("access", targetDir))
    /\ UNCHANGED << cfg, env, stack, visited, run, outAtStart, prevOut >>

\* fs.access(targetDir) rejects: console.error and process.exit(1)
AccessFails ==
    /\ pc = "access"
    /\ ~Exists(targetDir)
    /\ pc' = "exited"
    /\ exitCode' = 1
    /\ ops' = Append(ops, Op("access", targetDir))
    /\ UNCHANGED << cfg, env, outExists, outFile, stack, visited, run,
                    outAtStart, prevOut >>

\* the output file is opened without being emptied
TruncateKeeping ==
    /\ pc = "truncate"
    /\ outExists' = TRUE
    /\ outFile' = outFile
    /\ ops' = Append(ops, Op("writeFile", outputFilePath))
    /\ pc' = "walk"
    /\ stack' = << NewFrame(targetDir) >>
    /\ UNCHANGED << cfg, env, exitCode, visited, run, outAtStart, prevOut >>

\* fs.writeFile(outputFilePath, ''), then the call traverseDirectory(targetDir)
\* (the write of the empty file is taken to succeed: were it to reject, main
\* would reject and no walk would start)
Truncate ==
    /\ pc = "truncate"
    /\ outExists' = TRUE
    /\ outFile' = <<>>
    /\ ops' = Append(ops, Op("writeFile", outputFilePath))
    /\ pc' = "walk"
    /\ stack' = << NewFrame(targetDir) >>
    /\ UNCHANGED << cfg, env, exitCode, visited, run, outAtStart, prevOut >>

(* ------------------------ traverseDirectory ---------------------------- *)

Top == stack[Len(stack)]

\* the stack with the innermost loop moved on to its next entry
Advance ==
    [stack EXCEPT ![Len(stack)] = [@ EXCEPT !.i = @ + 1]]

\* the subdirectory is put off until every active call has finished
CallDeferred(stk, dirPath) == << NewFrame(dirPath) >> \o stk

\* await traverseDirectory(fullPath): the callee runs before the caller's
\* loop goes on
Call(stk, dirPath) == stk \o << NewFrame(dirPath) >>

\* the innermost traverseDirectory returns (normally or through its catch);
\* when it was the call main made, main logs "Done." and the process ends
Unwind ==
    /\ stack' = SubSeq(stack, 1, Len(stack) - 1)
    /\ IF Len(stack) = 1
       THEN pc' = "done" /\ exitCode' = 0
       ELSE UNCHANGED << pc, exitCode >>

InLoop ==
    /\ pc = "walk"
    /\ stack # <<>>
    /\ Top.listed
    /\ Top.i <= Len(Top.files)

file     == Top.files[Top.i]
fullPath == Join(Top.dirPath, file.name)

\* the placeholder names the entry by its base name
logSkippedFileBasename(filePath, reason) ==
    /\ outFile' = Append(outFile,
                         [rel |-> Basename(filePath), tag |-> reason,
                          content |-> <<>>])
    /\ ops' = Append(ops, Op("appendFile", filePath))

\* fs.appendFile(outputFilePath, ...) of logSkippedFile, when it succeeds
logSkippedFile(filePath, reason) ==
    /\ outFile' = Append(outFile,
                         [rel |-> Relative(cfg.cwd, filePath), tag |-> reason,
                          content |-> <<>>])
    /\ ops' = Append(ops, Op("appendFile", filePath))

\* fs.readdir resolves: the loop starts at the first entry
ReaddirOk ==
    /\ pc = "walk"
    /\ stack # <<>>
    /\ ~Top.listed
    /\ Top.dirPath \notin env.unlistable
    /\ stack' = [stack EXCEPT ![Len(stack)] =
                    [@ EXCEPT !.files = Readdir(Top.dirPath),
                              !.i = 1, !.listed = TRUE]]
    /\ ops' = Append(ops, Op("readdir", Top.dirPath))
    /\ UNCHANGED << cfg, env, outExists, outFile, pc, exitCode, visited, run,
                    outAtStart, prevOut >>

\* fs.readdir rejects: the catch of this call logs it and the call returns
ReaddirFails ==
    /\ pc = "walk"
    /\ stack # <<>>
    /\ ~Top.listed
    /\ Top.dirPath \in env.unlistable
    /\ ops' = Append(ops, Op("readdir", Top.dirPath))
    /\ Unwind
    /\ UNCHANGED << cfg, env, outExists, outFile, visited, run, outAtStart,
                    prevOut >>

\* an excluded entry with showExcluded: the placeholder is appended
ExcludedLogged ==
    /\ InLoop
    /\ isExcluded(fullPath)
    /\ showExcluded
    /\ fullPath \notin env.failAppend
    /\ logSkippedFile(fullPath, TagExcluded)
    /\ visited' = Append(visited, fullPath)
    /\ stack' = Advance
    /\ UNCHANGED << cfg, env, outExists, pc, exitCode, run, outAtStart,
                    prevOut >>

\* the append of logSkippedFile rejects: the rejection leaves the loop and
\* reaches the catch of this traverseDirectory call, which returns
ExcludedAppendFails ==
    /\ InLoop
    /\ isExcluded(fullPath)
    /\ showExcluded
    /\ fullPath \in env.failAppend
    /\ ops' = Append(ops, Op("appendFile", fullPath))
    /\ visited' = Append(visited, fullPath)
    /\ Unwind
    /\ UNCHANGED << cfg, env, outExists, outFile, run, outAtStart, prevOut >>

\* an excluded entry without showExcluded: continue
ExcludedSilent ==
    /\ InLoop
    /\ isExcluded(fullPath)
    /\ ~showExcluded
    /\ visited' = Append(visited, fullPath)
    /\ stack' = Advance
    /\ UNCHANGED << cfg, env, outExists, outFile, pc, exitCode, ops, run,
                    outAtStart, prevOut >>

\* a directory that passes the includeDirs test: the recursive call
DirRecurse ==
    /\ InLoop
    /\ ~isExcluded(fullPath)
    /\ file.isDirectory
    /\ shouldRecurse(fullPath)
    /\ visited' = Append(visited, fullPath)
    /\ stack' = Call(Advance, fullPath)
    /\ UNCHANGED << cfg, env, outExists, outFile, pc, exitCode, ops, run,
                    outAtStart, prevOut >>

\* a directory that fails the includeDirs test: nothing happens
DirNotIncluded ==
    /\ InLoop
    /\ ~isExcluded(fullPath)
    /\ file.isDirectory
    /\ ~shouldRecurse(fullPath)
    /\ visited' = Append(visited, fullPath)
    /\ stack' = Advance
    /\ UNCHANGED << cfg, env, outExists, outFile, pc, exitCode, ops, run,
                    outAtStart, prevOut >>

IsSkippedFile ==
    /\ InLoop
    /\ ~isExcluded(fullPath)
    /\ ~file.isDirectory
    /\ ~qualifiesByExtension(file.name)

\* a file of another extension with showSkipped: the placeholder is appended
SkippedLogged ==
    /\ IsSkippedFile
    /\ showSkipped
    /\ fullPath \notin env.failAppend
    /\ logSkippedFile(fullPath, TagSkipped)
    /\ visited' = Append(visited, fullPath)
    /\ stack' = Advance
    /\ UNCHANGED << cfg, env, outExists, pc, exitCode, run, outAtStart,
                    prevOut >>

\* the append of logSkippedFile rejects: as in ExcludedAppendFails
SkippedAppendFails ==
    /\ IsSkippedFile
    /\ showSkipped
    /\ fullPath \in env.failAppend
    /\ ops' = Append(ops, Op("appendFile", fullPath))
    /\ visited' = Append(visited, fullPath)
    /\ Unwind
    /\ UNCHANGED << cfg, env, outExists, outFile, run, outAtStart, prevOut >>

\* a file of another extension without showSkipped: continue
SkippedSilent ==
    /\ IsSkippedFile
    /\ ~showSkipped
    /\ visited' = Append(visited, fullPath)
    /\ stack' = Advance
    /\ UNCHANGED << cfg, env, outExists, outFile, pc, exitCode, ops, run,
                    outAtStart, prevOut >>

(* ---------------------------- processFile ------------------------------ *)

IsQualifyingFile ==
    /\ InLoop
    /\ ~isExcluded(fullPath)
    /\ ~file.isDirectory
    /\ qualifiesByExtension(file.name)

\* readFile and appendFile both resolve
processFile ==
    /\ IsQualifyingFile
    /\ fullPath \notin env.unreadable
    /\ fullPath \notin env.failAppend
    /\ outFile' = Append(outFile,
                         [rel |-> Relative(cfg.cwd, fullPath),
                          tag |-> TagProcessed,
                          content |-> ReadFile(fullPath)])
    /\ ops' = ops \o << Op("readFile", fullPath), Op("appendFile", fullPath) >>
    /\ visited' = Append(visited, fullPath)
    /\ stack' = Advance
    /\ UNCHANGED << cfg, env, outExists, pc, exitCode, run, outAtStart,
                    prevOut >>

\* readFile rejects: the catch of processFile logs it, the loop goes on
processFileReadFails ==
    /\ IsQualifyingFile
    /\ fullPath \in env.unreadable
    /\ ops' = Append(ops, Op("readFile", fullPath))
    /\ visited' = Append(visited, fullPath)
    /\ stack' = Advance
    /\ UNCHANGED << cfg, env, outExists, outFile, pc, exitCode, run,
                    outAtStart, prevOut >>

\* appendFile rejects: the catch of processFile logs it, the loop goes on
processFileAppendFails ==
    /\ IsQualifyingFile
    /\ fullPath \notin env.unreadable
    /\ fullPath \in env.failAppend
    /\ ops' = ops \o << Op("readFile", fullPath), Op("appendFile", fullPath) >>
    /\ visited' = Append(visited, fullPath)
    /\ stack' = Advance
    /\ UNCHANGED << cfg, env, outExists, outFile, pc, exitCode, run,
                    outAtStart, prevOut >>

\* the for-loop has no entry left: the call returns
LoopEnd ==
    /\ pc = "walk"
    /\ stack # <<>>
    /\ Top.listed
    /\ Top.i > Len(Top.files)
    /\ Unwind
    /\ UNCHANGED << cfg, env, outExists, outFile, ops, visited, run,
                    outAtStart, prevOut >>

(* ---------------------------- the next run ----------------------------- *)

\* the tool is started again with the same configuration in the same
\* working directory on the same file system
Rerun ==
    /\ pc \in {"done", "exited"}
    /\ run < MaxRuns
    /\ run' = run + 1
    /\ pc' = "access"
    /\ exitCode' = -1
    /\ stack' = <<>>
    /\ ops' = <<>>
    /\ visited' = <<>>
    /\ outAtStart' = [exists |-> outExists, file |-> outFile]
    /\ prevOut' = outFile
    /\ UNCHANGED << cfg, env, outExists, outFile >>

Next ==
    \/ AccessOk
    \/ AccessFails
    \/ Truncate
    \/ ReaddirOk
    \/ ReaddirFails
    \/ ExcludedLogged
    \/ ExcludedAppendFails
    \/ ExcludedSilent
    \/ DirRecurse
    \/ DirNotIncluded
    \/ SkippedLogged
    \/ SkippedAppendFails
    \/ SkippedSilent
    \/ processFile
    \/ processFileReadFails
    \/ processFileAppendFails
    \/ LoopEnd
    \/ Rerun

Spec == Init /\ [][Next]_vars

(* ----------------------- vocabulary of the claims ---------------------- *)

\* p lies strictly below directory d
IsUnder(p, d) == Len(p) > Len(d) /\ SubSeq(p, 1, Len(d)) = d

\* the paths that exist below the scan root
UnderRoot ==
    { p \in StaticDirs \cup StaticFiles \cup {outputFilePath} :
        Exists(p) /\ IsUnder(p, targetDir) }

\* p and the directories between the scan root and p
SelfAndAncestors(p) ==
    { SubSeq(p, 1, k) : k \in (Len(targetDir) + 1)..Len(p) }

\* the exclude rule as the specification words it: a pattern is a substring
\* of the path relative to the working directory, or equals the base name
MatchesExclude(p) ==
    \E pattern \in Range(excludePatterns) :
        \/ Includes(Relative(cfg.cwd, p), pattern)
        \/ p[Len(p)] = pattern

\* the extension is not a member of includeExtensions
ExtensionMismatch(p) == Extname(p[Len(p)]) \notin Range(includeExtensions)

\* the output holds a record with this tag for path p
HasRecord(p, tag) ==
    \E k \in 1..Len(outFile) :
        outFile[k].rel = Relative(cfg.cwd, p) /\ outFile[k].tag = tag

HasAnyRecord(p) ==
    \E k \in 1..Len(outFile) : outFile[k].rel = Relative(cfg.cwd, p)

Reached(p) == p \in Range(visited)

Attempted(kind, p) == Op(kind, p) \in Range(ops)

NoFaults ==
    env.unlistable = {} /\ env.unreadable = {} /\ env.failAppend = {}

\* the entries below dir in the order a depth-first walk that recursed into
\* every directory would meet them
RECURSIVE PreOrderOf(_, _)
PreOrderOf(dir, entries) ==
    IF entries = <<>> THEN <<>>
    ELSE LET child == Join(dir, entries[1].name)
         IN  << child >>
             \o (IF entries[1].isDirectory
                 THEN PreOrderOf(child, Readdir(child))
                 ELSE <<>>)
             \o PreOrderOf(dir, Tail(entries))

PreOrder == PreOrderOf(targetDir, Readdir(targetDir))

\* the positions in sequence s of the path a record was written for
PositionsIn(s, rec) ==
    { k \in 1..Len(s) : Relative(cfg.cwd, s[k]) = rec.rel }

(* ------------------------------- C1 ------------------------------------ *)

\* C1: whatever the configuration, the output never holds a Processed or a
\* SkippedExtension record for a path below the scan root that matches an
\* exclude pattern, nor for any path beneath a directory that matches one.
C1_ExcludedNeverProcessed ==
    \A p \in UnderRoot :
        (\E q \in SelfAndAncestors(p) : MatchesExclude(q))
            => ~HasRecord(p, TagProcessed) /\ ~HasRecord(p, TagSkipped)

\* a finished walk that met a directory matching an exclude pattern, with
\* files beneath it, and that processed some other file
C1_Witness ==
    /\ pc = "done"
    /\ \E q \in StaticDirs :
          /\ Reached(q)
          /\ MatchesExclude(q)
          /\ \E p \in UnderRoot : IsUnder(p, q)
    /\ \E k \in 1..Len(outFile) : outFile[k].tag = TagProcessed

(* ------------------------------- C2 ------------------------------------ *)

\* C2 as claimed, on a file system without I/O failures: after a completed
\* run every path below the scan root that matches an exclude pattern has an
\* Excluded record if and only if showExcluded is true.
C2_AsClaimed ==
    (pc = "done" /\ NoFaults) =>
        \A p \in UnderRoot :
            MatchesExclude(p) => (HasRecord(p, TagExcluded) <=> showExcluded)

\* C2 as amended: after a completed run a path below the scan root that
\* matches an exclude pattern has an Excluded record if and only if the walk
\* reached it as an entry of a directory it listed, showExcluded is true and
\* the append of the placeholder did not fail; a matching path the walk
\* never reaches (one beneath an excluded directory, for instance) has none.
C2_ExcludedRecordIffReachedAndShown ==
    pc = "done" =>
        \A p \in UnderRoot :
            MatchesExclude(p) =>
                (HasRecord(p, TagExcluded)
                    <=> (Reached(p) /\ showExcluded
                         /\ p \notin env.failAppend))

\* a finished walk that wrote the placeholder of an excluded directory and
\* none for a matching file beneath it
C2_Witness ==
    /\ pc = "done"
    /\ showExcluded
    /\ \E q \in StaticDirs, p \in UnderRoot :
          /\ IsUnder(p, q)
          /\ MatchesExclude(q) /\ MatchesExclude(p)
          /\ HasRecord(q, TagExcluded)
          /\ ~HasRecord(p, TagExcluded)

(* ------------------------------- C3 ------------------------------------ *)

\* C3 as claimed, on a file system without I/O failures, for files that
\* neither match an exclude pattern nor lie beneath a directory that does:
\* after a completed run a file whose extension is not in includeExtensions
\* has a SkippedExtension record if and only if showSkipped is true, and no
\* record at all when showSkipped is false.
C3_AsClaimed ==
    (pc = "done" /\ NoFaults) =>
        \A p \in UnderRoot :
            ( /\ p \notin StaticDirs
              /\ \A q \in SelfAndAncestors(p) : ~MatchesExclude(q)
              /\ ExtensionMismatch(p) )
            => /\ HasRecord(p, TagSkipped) <=> showSkipped
               /\ ~showSkipped => ~HasAnyRecord(p)

\* C3 as amended: after a completed run a file below the scan root that is
\* not excluded and whose extension is not in includeExtensions has a
\* SkippedExtension record if and only if the walk reached it, showSkipped
\* is true and the append of the placeholder did not fail; it never has a
\* record of another kind, and a file the walk never reaches (one in a
\* directory that includeDirs keeps the walk out of, for instance) has no
\* record at all.
C3_SkippedRecordIffReachedAndShown ==
    pc = "done" =>
        \A p \in UnderRoot :
            ( /\ p \notin StaticDirs
              /\ ~MatchesExclude(p)
              /\ ExtensionMismatch(p) )
            => /\ HasRecord(p, TagSkipped)
                    <=> (Reached(p) /\ showSkipped
                         /\ p \notin env.failAppend)
               /\ ~HasRecord(p, TagProcessed)
               /\ ~HasRecord(p, TagExcluded)

\* a finished walk that wrote the placeholder of one file of another
\* extension and none for another such file, in a directory it kept out of
C3_Witness ==
    /\ pc = "done"
    /\ showSkipped
    /\ \E p1 \in UnderRoot, p2 \in UnderRoot :
          /\ p1 \notin StaticDirs /\ p2 \notin StaticDirs
          /\ ~MatchesExclude(p1) /\ ~MatchesExclude(p2)
          /\ ExtensionMismatch(p1) /\ ExtensionMismatch(p2)
          /\ HasRecord(p1, TagSkipped)
          /\ ~Reached(p2) /\ ~HasAnyRecord(p2)

(* ------------------------------- C4 ------------------------------------ *)

\* C4 as claimed: with includeDirs non-empty, a directory below the scan
\* root that is not excluded and whose relative path contains no member of
\* includeDirs is never listed, and neither it nor anything beneath it gets
\* a record of any kind.
C4_AsClaimed ==
    Len(includeDirs) > 0 =>
        \A d \in UnderRoot \cap StaticDirs :
            ( /\ ~MatchesExclude(d)
              /\ \A k \in 1..Len(includeDirs) :
                    ~Includes(Relative(cfg.cwd, d), includeDirs[k]) )
            => /\ ~Attempted("readdir", d)
               /\ ~HasAnyRecord(d)
               /\ \A p \in UnderRoot : IsUnder(p, d) => ~HasAnyRecord(p)

(* ------------------------------- C5 ------------------------------------ *)

\* C5: once the output has been emptied, its records stand in the order of
\* the depth-first walk: every record is the record of an entry the walk
\* reached, and of two records the earlier one belongs to the entry that
\* comes first both in the order the walk reached them and in the
\* depth-first order of the tree (entries of a directory in listing order,
\* everything beneath a subdirectory at the position of that subdirectory).
C5_RecordsInWalkOrder ==
    pc \in {"walk", "done"} =>
        /\ \A k \in 1..Len(outFile) :
              /\ PositionsIn(visited, outFile[k]) # {}
              /\ PositionsIn(PreOrder, outFile[k]) # {}
        /\ \A j, k \in 1..Len(outFile) :
              j < k =>
                 /\ \A a \in PositionsIn(visited, outFile[j]),
                       b \in PositionsIn(visited, outFile[k]) : a < b
                 /\ \A a \in PositionsIn(PreOrder, outFile[j]),
                       b \in PositionsIn(PreOrder, outFile[k]) : a < b

\* a finished walk whose output holds a record from inside a subdirectory
\* between two records of the directory above it
C5_Witness ==
    /\ pc = "done"
    /\ \E i, j, k \in 1..Len(outFile) :
          /\ i < j /\ j < k
          /\ \E p \in UnderRoot, q \in UnderRoot, r \in UnderRoot :
                /\ Relative(cfg.cwd, p) = outFile[i].rel
                /\ Relative(cfg.cwd, q) = outFile[j].rel
                /\ Relative(cfg.cwd, r) = outFile[k].rel
                /\ Len(q) = Len(p) + 1
                /\ Len(r) = Len(p)
                /\ SubSeq(q, 1, Len(p) - 1) = SubSeq(p, 1, Len(p) - 1)

(* ------------------------------- C6 ------------------------------------ *)

WriteFilePositions == { k \in 1..Len(ops) : ops[k].op = "writeFile" }

AppendPositions == { k \in 1..Len(ops) : ops[k].op = "appendFile" }

C7_AsClaimed ==
    (~Exists(targetDir) \/ targetDir \in env.unlistable) =>
        /\ \A k \in 1..Len(ops) :
              ops[k].op \notin {"readdir", "readFile", "appendFile"}
        /\ pc \in {"done", "exited"} => exitCode # 0

(* ------------------------------- C8 ------------------------------------ *)

\* C8 as claimed: after a run that aborted because the scan root does not
\* exist, the output file does not exist or is empty.
C8_AsClaimed ==
    pc = "exited" => (~outExists \/ outFile = <<>>)

\* C8 as amended: a run that aborts because the scan root does not exist
\* leaves the output path exactly as it found it: absent if it was absent,
\* and with its earlier content, empty or not, if it was there.
C8_AbortLeavesOutputUntouched ==
    pc = "exited" =>
        /\ exitCode = 1
        /\ outExists = outAtStart.exists
        /\ outFile = outAtStart.file

\* an aborted run over an output file that an earlier use left non-empty
C8_Witness ==
    /\ pc = "exited"
    /\ outExists
    /\ outFile = << StaleRecord >>

(* ------------------------------- C9 ------------------------------------ *)

\* C9 as claimed: whatever I/O errors occur, a completed walk has reached
\* every entry of every directory it listed.
C9_AsClaimed ==
    pc = "done" =>
        \A d \in StaticDirs :
            (Attempted("readdir", d) /\ d \notin env.unlistable) =>
                \A k \in 1..Len(Readdir(d)) :
                    Reached(Join(d, Readdir(d)[k].name))

(* ------------------------------- C10 ----------------------------------- *)

\* C10: when the tool has run again with the same configuration, working
\* directory and file system, the output file after the later run holds
\* what it held after the run before it.
C10_SecondRunSameOutput ==
    (run >= 2 /\ pc \in {"done", "exited"}) => outFile = prevOut

\* a second completed run whose output file lies in the scanned tree and
\* was itself read and recorded by the walk
C10_Witness ==
    /\ run = 2
    /\ pc = "done"
    /\ outputFilePath \in UnderRoot
    /\ HasRecord(outputFilePath, TagProcessed)
    /\ \E k \in 1..Len(outFile) :
          /\ outFile[k].rel = Relative(cfg.cwd, outputFilePath)
          /\ Len(outFile[k].content) > 0

====
